---- MODULE Spec2Model ----
(***************************************************************************)
(* compress / ulcompress: a bijection between files (byte sequences) and   *)
(* natural numbers, and the "compression" built on it (subtract the shift  *)
(* from the file's number and write the number back as a file).            *)
(*                                                                         *)
(* compress.c and ulcompress.c hold the same code (ulcompress.c adds       *)
(* comments); line numbers below are those of compress.c.                  *)
(***************************************************************************)
EXTENDS Integers, Sequences, FiniteSets, TLC

VARIABLES
    file,       \* the bytes of FILENAME on disk
    pc,         \* position of the process in main: "getopt", "guard", "put", "exit"
    compress,   \* mpz_t compress: the accumulated shift
    debug,      \* static int debug
    n,          \* mpz_t n
    contents,   \* static unsigned char *contents: the calloc'd block (<<>>: not allocated)
    filesize,   \* long filesize of put (-1: put has not computed it)
    status,     \* how the process ended: "running", "ok", "help", "fail", "crash"
    msg,        \* which message fail printed
    hint,       \* the %Zd of the "Cannot compress that much" message (-1: none)
    optlog,     \* history: the options getopt has delivered so far
    orig,       \* history: the bytes of the file when the process started
    fault,      \* history: the I/O failure the environment produced ("none")
    mode,       \* the driver: "cli" (one process), or a script of runs
    step,       \* script: how many runs have completed successfully
    first,      \* script: the bytes of the file before the first run
    k           \* script: the shift of the run and its inverse

vars == <<file, pc, compress, debug, n, contents, filesize, status, msg, hint,
          optlog, orig, fault, mode, step, first, k>>

-----------------------------------------------------------------------------
(* Bounds of the model.                                                    *)

MaxLen == 2          \* longest file the model starts from
MaxOpts == 2         \* most options on one command line
MaxSteps == 300      \* largest encoded value the repeat script starts from
MaxValue == 8000000  \* largest encoded value of a start file (255 * n + 1 stays below 2^31)

\* the bytes start files are made of, and the bytes a stray write leaves
SampleBytes == {0, 1, 255}
GarbageBytes == {0, 255}

-----------------------------------------------------------------------------
(* The GMP and libc operations the program calls, as the code uses them.   *)

mpz255 == 255

RECURSIVE mpz_setbit(_)
\* mpz_setbit (n, bit) on n = 0: 2^bit
mpz_setbit(bit) == IF bit = 0 THEN 1 ELSE 2 * mpz_setbit(bit - 1)

RECURSIVE bit_length(_)
bit_length(m) == IF m < 2 THEN 1 ELSE 1 + bit_length(m \div 2)

\* mpz_sizeinbase (m, 2): the number of bits of |m| (1 for m = 0)
mpz_sizeinbase2(m) == IF m < 0 THEN bit_length(0 - m) ELSE bit_length(m)

RECURSIVE mpz_import_msf(_)
\* mpz_import with a fault seeded: the bytes read most significant first (order 1)
mpz_import_msf(data) ==
    IF data = <<>> THEN 0
    ELSE Head(data) * mpz_setbit(8 * (Len(data) - 1)) + mpz_import_msf(Tail(data))

RECURSIVE mpz_import(_)
\* mpz_import (m, count, -1, 1, 0, 0, data): bytes as a number, least
\* significant byte first
mpz_import(data) ==
    IF data = <<>> THEN 0 ELSE Head(data) + 256 * mpz_import(Tail(data))

RECURSIVE base256_msf(_)
base256_msf(m) == IF m = 0 THEN <<>> ELSE base256_msf(m \div 256) \o <<m % 256>>

\* mpz_export_words with a fault seeded: the words most significant first (order 1)
mpz_export_words_msf(m) == IF m < 0 THEN base256_msf(0 - m) ELSE base256_msf(m)

RECURSIVE base256_lsf(_)
base256_lsf(m) == IF m = 0 THEN <<>> ELSE <<m % 256>> \o base256_lsf(m \div 256)

\* the words mpz_export (.., -1, 1, 0, 0, m) produces: the base-256 digits
\* of |m|, least significant first, none for m = 0
mpz_export_words(m) == IF m < 0 THEN base256_lsf(0 - m) ELSE base256_lsf(m)

\* calloc (size, 1)
calloc(size) == [i \in 1..size |-> 0]

\* memset with a fault seeded: the block is not cleared
memset_skipped(buf, count) == buf

\* memset (buf, 0, count), count <= Len(buf)
memset(buf, count) == [i \in 1..Len(buf) |-> IF i <= count THEN 0 ELSE buf[i]]

\* mpz_export (buf, &count, -1, 1, 0, 0, m): the words go to the start of buf
mpz_export(buf, m) ==
    LET words == mpz_export_words(m)
    IN [i \in 1..Len(buf) |-> IF i <= Len(words) THEN words[i] ELSE buf[i]]

\* the interval base: mpz_setbit (n, 8*filesize); mpz_sub_ui (n, n, 1);
\* mpz_fdiv_q (n, n, _255)
start_of_size(size) == (mpz_setbit(8 * size) - 1) \div mpz255

\* filesize_of with a fault seeded: the bit length not lowered by 1 before the division
filesize_of_bits(nv) == mpz_sizeinbase2(nv * mpz255 + 1) \div 8

\* put: mpz_mul (m, n, _255); mpz_add_ui (m, m, 1);
\* filesize = (mpz_sizeinbase (m, 2) - 1) / 8
filesize_of(nv) == (mpz_sizeinbase2(nv * mpz255 + 1) - 1) \div 8

-----------------------------------------------------------------------------
(* mpz_set_str (arg, optarg, 0), on option operands given as tuples of     *)
(* characters (no white space in the model's operands).                    *)

DecDigits == <<"0", "1", "2", "3", "4", "5", "6", "7", "8", "9">>
HexLetters == <<"a", "b", "c", "d", "e", "f">>

\* GMP's digit value table; 255 for a character that is no digit
digit_value(c) ==
    IF \E i \in 1..10 : DecDigits[i] = c
    THEN (CHOOSE i \in 1..10 : DecDigits[i] = c) - 1
    ELSE IF \E i \in 1..6 : HexLetters[i] = c
    THEN (CHOOSE i \in 1..6 : HexLetters[i] = c) + 9
    ELSE 255

RECURSIVE skip_zeros(_)
skip_zeros(str) ==
    IF str # <<>> /\ Head(str) = "0" THEN skip_zeros(Tail(str)) ELSE str

RECURSIVE digits_value(_, _, _)
digits_value(str, base, acc) ==
    IF str = <<>> THEN acc
    ELSE digits_value(Tail(str), base, acc * base + digit_value(Head(str)))

\* [ret, value]: ret = 0 and the value, or ret = -1
mpz_set_str(optarg) ==
    LET negative == optarg # <<>> /\ Head(optarg) = "-"
        str == IF negative THEN Tail(optarg) ELSE optarg
        c == IF str = <<>> THEN "NUL" ELSE Head(str)
        c2 == IF Len(str) >= 2 THEN str[2] ELSE "NUL"
        base == IF c # "0" THEN 10
                ELSE IF c2 \in {"x", "X"} THEN 16
                ELSE IF c2 \in {"b", "B"} THEN 2
                ELSE 8
        rest == IF c # "0" THEN str
                ELSE IF base = 8 THEN Tail(str)
                ELSE Tail(Tail(str))
        digits == skip_zeros(rest)
        magnitude == digits_value(digits, base, 0)
    IN IF digit_value(c) >= 10 THEN [ret |-> -1, value |-> 0]
       ELSE IF \E i \in 1..Len(digits) : digit_value(digits[i]) >= base
       THEN [ret |-> -1, value |-> 0]
       ELSE [ret |-> 0, value |-> IF negative THEN 0 - magnitude ELSE magnitude]

-----------------------------------------------------------------------------
(* get, the guards of main and put, as functions of what they read.        *)

FAILFILE == "Unable to access file."
NotInteger == "Argument is not an integer."
ParseError == "Error parsing arguments."
NoFilename == "No filename specified."
TooMany == "Too many arguments."
ZeroLength == "Cannot compress a zero-length file."
TooMuch == "Cannot compress that much."

\* I/O failures the environment can produce in get and in put
GetFaults == {"none", "fopen", "fseek", "ftell", "fread"}
PutFaults == {"none", "fopen", "fwrite", "flush"}

\* what a write past the end of the calloc'd block can lead to: nothing
\* visible, a crash, or other bytes in the file
UBOutcomes == {[kind |-> "asif", fill |-> 0], [kind |-> "crash", fill |-> 0]}
              \cup {[kind |-> "corrupt", fill |-> b] : b \in GarbageBytes}

\* get (n, filename) on a file holding f: [failed, n, contents]
get(f, io) ==
    IF io \in {"fopen", "fseek", "ftell"}
    THEN [failed |-> TRUE, n |-> 0, contents |-> <<>>]
    ELSE IF io = "fread" /\ Len(f) > 0
    THEN [failed |-> TRUE, n |-> start_of_size(Len(f)), contents |-> calloc(Len(f) + 1)]
    ELSE [failed |-> FALSE,
          n |-> start_of_size(Len(f)) + mpz_import(f),
          contents |-> f \o calloc(1)]

\* mpz_cmp_si (n, 0) == 0 && mpz_cmp_si (compress, 0) > 0
EmptyFileOverCompress(nv, comp) == nv = 0 /\ comp > 0

\* InsufficientValue with a fault seeded: the comparison off by one
InsufficientValue_le(nv, comp) == nv <= comp

\* mpz_cmp (n, compress) < 0
InsufficientValue(nv, comp) == nv < comp

\* guard with a fault seeded: the two checks in the other order
guard_swapped(nv, comp) ==
    IF InsufficientValue(nv, comp) THEN TooMuch
    ELSE IF EmptyFileOverCompress(nv, comp) THEN ZeroLength
    ELSE "pass"

\* the two fail calls before mpz_sub: the message printed, or "pass"
guard(nv, comp) ==
    IF EmptyFileOverCompress(nv, comp) THEN ZeroLength
    ELSE IF InsufficientValue(nv, comp) THEN TooMuch
    ELSE "pass"

\* put (n, filename) with the block buf that get left, on a file holding f:
\* [file, status, msg, filesize, contents].  w: how many bytes reach the disk
\* when the write fails.
put(nv, buf, f, io, ub, w) ==
    LET size == filesize_of(nv)
        m == nv - start_of_size(size)
        inside == size <= Len(buf)
        block == IF inside THEN buf ELSE buf \o calloc(size - Len(buf))
        exported == mpz_export(memset(block, size), m)
        bytes == SubSeq(exported, 1, size)
        short == SubSeq(bytes, 1, IF w < size THEN w ELSE size - 1)
    IN IF io = "fopen"
       THEN [file |-> f, status |-> "fail", msg |-> FAILFILE,
             filesize |-> -1, contents |-> buf]
       ELSE IF ~inside
       THEN \* memset (contents, 0, filesize) runs past the block: undefined
            CASE ub.kind = "asif" ->
                   [file |-> bytes, status |-> "ok", msg |-> "none",
                    filesize |-> size, contents |-> exported]
              [] ub.kind = "crash" ->
                   [file |-> <<>>, status |-> "crash", msg |-> "none",
                    filesize |-> size, contents |-> buf]
              [] ub.kind = "corrupt" ->
                   [file |-> [i \in 1..size |-> ub.fill], status |-> "ok",
                    msg |-> "none", filesize |-> size, contents |-> buf]
       ELSE IF io = "fwrite" /\ size > 0
       THEN [file |-> short, status |-> "fail", msg |-> FAILFILE,
             filesize |-> size, contents |-> exported]
       ELSE IF io = "flush" /\ size > 0
       THEN [file |-> short, status |-> "ok", msg |-> "none",
             filesize |-> size, contents |-> exported]
       ELSE [file |-> bytes, status |-> "ok", msg |-> "none",
             filesize |-> size, contents |-> exported]

-----------------------------------------------------------------------------
(* One process: main, option by option, then get, the guards and put.      *)

\* the operands of -C and -D the model draws from: 0x101 (257), -2, and two
\* that mpz_set_str rejects
Optargs == { <<"0", "x", "1", "0", "1">>, <<"-", "2">>, <<"x">>, <<"0", "9">> }

InitFiles ==
    {f \in UNION {[1..len -> SampleBytes] : len \in 0..MaxLen} :
        start_of_size(Len(f)) + mpz_import(f) <= MaxValue}

Init ==
    /\ file \in InitFiles
    /\ pc = "getopt"
    /\ compress = 0
    /\ debug = 0
    /\ n = 0
    /\ contents = <<>>
    /\ filesize = -1
    /\ status = "running"
    /\ msg = "none"
    /\ hint = -1
    /\ optlog = <<>>
    /\ orig = file
    /\ fault = "none"
    /\ mode = "cli"
    /\ step = 0
    /\ first = file
    /\ k = 0

script == <<mode, step, first, k>>

\* fail (str, ...): print and exit (1)
fail(str) ==
    /\ pc' = "exit"
    /\ status' = "fail"
    /\ msg' = str

\* getopt delivers another option
more_options == pc = "getopt" /\ Len(optlog) < MaxOpts

case_v ==
    /\ more_options
    /\ debug' = 1
    /\ optlog' = Append(optlog, [opt |-> "v", arg |-> <<>>])
    /\ UNCHANGED <<file, pc, compress, n, contents, filesize, status, msg, hint,
                   orig, fault, script>>

\* add_or_sub with a fault seeded: the sign of -D lost
add_always(sign, comp, arg) == comp + arg

\* mpz_add (compress, compress, arg) or mpz_sub (compress, compress, arg)
add_or_sub(sign, comp, arg) == IF sign > 0 THEN comp + arg ELSE comp - arg

\* case 'D': sign = -1; (falls through) case 'C': ...
case_C_block(opt, sign, optarg) ==
    LET r == mpz_set_str(optarg)
    IN /\ more_options
       /\ IF r.ret # 0
          THEN /\ fail(NotInteger)
               /\ UNCHANGED <<compress, optlog>>
          ELSE /\ compress' = add_or_sub(sign, compress, r.value)
               /\ optlog' = Append(optlog, [opt |-> opt, arg |-> optarg])
               /\ UNCHANGED <<pc, status, msg>>
       /\ UNCHANGED <<file, debug, n, contents, filesize, hint, orig, fault, script>>

case_D == \E optarg \in Optargs : case_C_block("D", -1, optarg)

case_C == \E optarg \in Optargs : case_C_block("C", 1, optarg)

case_c ==
    /\ more_options
    /\ compress' = compress + 1
    /\ optlog' = Append(optlog, [opt |-> "c", arg |-> <<>>])
    /\ UNCHANGED <<file, pc, debug, n, contents, filesize, status, msg, hint,
                   orig, fault, script>>

case_d ==
    /\ more_options
    /\ compress' = compress - 1
    /\ optlog' = Append(optlog, [opt |-> "d", arg |-> <<>>])
    /\ UNCHANGED <<file, pc, debug, n, contents, filesize, status, msg, hint,
                   orig, fault, script>>

\* case 'h': printf (usage); exit (0)
case_h ==
    /\ more_options
    /\ pc' = "exit"
    /\ status' = "help"
    /\ UNCHANGED <<file, compress, debug, n, contents, filesize, msg, hint,
                   optlog, orig, fault, script>>

\* default: an option getopt does not know, or a missing operand
case_default ==
    /\ more_options
    /\ fail(ParseError)
    /\ UNCHANGED <<file, compress, debug, n, contents, filesize, hint,
                   optlog, orig, fault, script>>

\* getopt returns -1: the filename checks, then get (n, filename)
call_get ==
    \E nargs \in 0..2, io \in GetFaults :
        LET g == get(file, io)
        IN /\ pc = "getopt"
           /\ IF nargs = 0
              THEN fail(NoFilename) /\ UNCHANGED <<n, contents, fault>>
              ELSE IF nargs > 1
              THEN fail(TooMany) /\ UNCHANGED <<n, contents, fault>>
              ELSE /\ n' = g.n
                   /\ contents' = g.contents
                   /\ fault' = io
                   /\ IF g.failed
                      THEN fail(FAILFILE)
                      ELSE pc' = "guard" /\ UNCHANGED <<status, msg>>
           /\ UNCHANGED <<file, compress, debug, filesize, hint, optlog, orig, script>>

\* the two guards, then mpz_sub (n, n, compress)
guard_sub ==
    LET verdict == guard(n, compress)
    IN /\ pc = "guard"
       /\ IF verdict = "pass"
          THEN /\ n' = n - compress
               /\ pc' = "put"
               /\ UNCHANGED <<status, msg, hint>>
          ELSE /\ fail(verdict)
               /\ hint' = IF verdict = TooMuch THEN n ELSE hint
               /\ UNCHANGED n
       /\ UNCHANGED <<file, compress, debug, contents, filesize, optlog, orig,
                      fault, script>>

\* put (n, filename), then the process ends
call_put ==
    \E io \in PutFaults, ub \in UBOutcomes, w \in 0..MaxLen :
        LET p == put(n, contents, file, io, ub, w)
        IN /\ pc = "put"
           /\ file' = p.file
           /\ contents' = p.contents
           /\ filesize' = p.filesize
           /\ status' = p.status
           /\ msg' = p.msg
           /\ fault' = io
           /\ pc' = "exit"
           /\ UNCHANGED <<compress, debug, n, hint, optlog, orig, script>>

Next ==
    \/ case_v
    \/ case_D
    \/ case_C
    \/ case_c
    \/ case_d
    \/ case_h
    \/ case_default
    \/ call_get
    \/ guard_sub
    \/ call_put

Spec == Init /\ [][Next]_vars

-----------------------------------------------------------------------------
(* A script that runs the program several times on the same file, each run *)
(* a whole process with its net shift given and no I/O failure.            *)

ScriptShifts == {-257, -2, -1, 0, 1, 2, 257}

\* main from start to exit with net shift `shift`, one positional argument
run(shift, ub) ==
    \E g \in {get(file, "none")} :
    \E verdict \in {guard(g.n, shift)} :
    \E p \in {IF verdict = "pass"
              THEN put(g.n - shift, g.contents, file, "none", ub, 0)
              ELSE [file |-> file, status |-> "fail", msg |-> verdict,
                    filesize |-> -1, contents |-> g.contents]} :
       /\ orig' = file
       /\ compress' = shift
       /\ debug' = 0
       /\ fault' = "none"
       /\ pc' = "exit"
       /\ n' = IF verdict = "pass" THEN g.n - shift ELSE g.n
       /\ hint' = IF verdict = TooMuch THEN g.n ELSE -1
       /\ file' = p.file
       /\ contents' = p.contents
       /\ filesize' = p.filesize
       /\ status' = p.status
       /\ msg' = p.msg
       /\ UNCHANGED <<optlog, mode, first, k>>

InitScript ==
    /\ file \in InitFiles
    /\ mode \in {"inverse", "repeat", "bulk"}
    /\ k \in (IF mode = "inverse" THEN ScriptShifts ELSE {0})
    /\ mode = "repeat" => start_of_size(Len(file)) + mpz_import(file) <= MaxSteps
    /\ pc = "exit"
    /\ compress = 0
    /\ debug = 0
    /\ n = 0
    /\ contents = <<>>
    /\ filesize = -1
    /\ status = "none"
    /\ msg = "none"
    /\ hint = -1
    /\ optlog = <<>>
    /\ orig = file
    /\ fault = "none"
    /\ step = 0
    /\ first = file

\* compress with shift k ...
Apply ==
    /\ mode = "inverse"
    /\ step = 0
    /\ \E ub \in UBOutcomes : run(k, ub)
    /\ step' = 1

\* ... and, if that succeeded, with shift -k
Undo ==
    /\ mode = "inverse"
    /\ step = 1
    /\ status = "ok"
    /\ \E ub \in UBOutcomes : run(0 - k, ub)
    /\ step' = 2

\* compress -c FILE, again and again until it fails
RepeatC ==
    /\ mode = "repeat"
    /\ status \in {"none", "ok"}
    /\ \E ub \in UBOutcomes : run(1, ub)
    /\ step' = step + 1

\* compress -C V FILE, V the number the file stands for
Bulk ==
    /\ mode = "bulk"
    /\ step = 0
    /\ \E ub \in UBOutcomes : run(get(file, "none").n, ub)
    /\ step' = 1

NextScript ==
    \/ Apply
    \/ Undo
    \/ RepeatC
    \/ Bulk

SpecScript == InitScript /\ [][NextScript]_vars /\ WF_vars(NextScript)

-----------------------------------------------------------------------------
(* The mapping as the specification states it.                             *)

RECURSIVE Pow256(_)
Pow256(i) == IF i = 0 THEN 1 ELSE 256 * Pow256(i - 1)

RECURSIVE CategoryStart(_)
\* the first integer of size category N: the sum of 256^i for 0 <= i < N
CategoryStart(N) == IF N = 0 THEN 0 ELSE CategoryStart(N - 1) + Pow256(N - 1)

RECURSIVE DigitSum(_, _)
\* the sum of B[i] * 256^(i-1) over the first j bytes of B
DigitSum(B, j) == IF j = 0 THEN 0 ELSE DigitSum(B, j - 1) + B[j] * Pow256(j - 1)

EncodedValue(B) == CategoryStart(Len(B)) + DigitSum(B, Len(B))

\* the capacity of the block get allocates: calloc (filesize + 1, 1)
Capacity == Len(orig) + 1

RECURSIVE OptionSum(_, _, _)
\* the sum of the operands of the options `opt` among the first j of log
OptionSum(log, opt, j) ==
    IF j = 0 THEN 0
    ELSE OptionSum(log, opt, j - 1)
         + (IF log[j].opt = opt THEN mpz_set_str(log[j].arg).value ELSE 0)

OptionCount(log, opt) == Cardinality({i \in 1..Len(log) : log[i].opt = opt})

NetShift(log) ==
    OptionCount(log, "c") - OptionCount(log, "d")
    + OptionSum(log, "C", Len(log)) - OptionSum(log, "D", Len(log))

-----------------------------------------------------------------------------
(* The claims.                                                             *)

\* C1: a run with no I/O failure and net shift 0 (get, then put of the same
\* number) leaves exactly the bytes it found: same length, same bytes.
C1_RoundTrip ==
    (pc = "exit" /\ status = "ok" /\ fault = "none" /\ compress = 0)
        => file = orig

\* a file with a trailing 0x00 went through get and put and came back
C1_Witness ==
    /\ pc = "exit" /\ status = "ok" /\ fault = "none" /\ compress = 0
    /\ orig = <<1, 0>> /\ file = orig /\ filesize = 2

C4_Original ==
    [][(pc = "guard" /\ compress > EncodedValue(orig))
          => (pc' = "exit" /\ status' = "fail" /\ msg' = TooMuch
              /\ hint' = EncodedValue(orig) /\ file' = orig)]_vars

\* C4 as amended: for V >= 1 and shift > V the run ends with "Cannot compress
\* that much" and reports V; for V = 0 and shift > 0 it ends with "Cannot
\* compress a zero-length file"; in both the file is left as it was.
C4_InsufficiencyGuard ==
    [][(pc = "guard" /\ compress > EncodedValue(orig))
          => (/\ pc' = "exit" /\ status' = "fail" /\ file' = orig
              /\ IF EncodedValue(orig) = 0
                 THEN msg' = ZeroLength
                 ELSE msg' = TooMuch /\ hint' = EncodedValue(orig))]_vars

C4_Witness ==
    /\ pc = "exit" /\ msg = TooMuch /\ orig = <<0>> /\ hint = 1
    /\ compress = 2 /\ file = orig

\* C5: when the process has ended (and put stayed within its block), the file
\* holds what it held at the start or the whole content of the shifted number.
C5_NoPartialWrite ==
    (pc = "exit" /\ filesize <= Capacity)
        => (file = orig \/ EncodedValue(file) = EncodedValue(orig) - compress)

\* C6: the filesize put computes is the one N with
\* CategoryStart(N) <= n < CategoryStart(N+1).
C6_CategoryExact ==
    filesize >= 0 =>
        /\ CategoryStart(filesize) <= n
        /\ n < CategoryStart(filesize + 1)
        /\ \A N \in 0..filesize :
               (CategoryStart(N) <= n /\ n < CategoryStart(N + 1)) => N = filesize

\* put met the first number of a category
C6_Witness == pc = "exit" /\ filesize = 3 /\ n = CategoryStart(3)

\* C7: the number get returns for a file of N bytes is CategoryStart(N) plus
\* the bytes as a base-256 number, byte 0 least significant.
C7_EncodeValue ==
    pc = "guard" =>
        /\ n = EncodedValue(file)
        /\ file = <<>> => n = 0
        /\ file = <<0>> => n = 1
        /\ file = <<255>> => n = 256
        /\ file = <<0, 0>> => n = 257

C7_Witness == pc = "guard" /\ file = <<1, 255>> /\ n = 257 + 1 + 255 * 256

\* C8: the shift main applies is the number of -c minus the number of -d plus
\* the sum of the -C operands minus the sum of the -D operands, and the guards
\* and the subtraction use that net shift, once.
C8_ShiftAccumulation ==
    mode = "cli" =>
        /\ compress = NetShift(optlog)
        /\ pc = "put" => (/\ n = EncodedValue(orig) - NetShift(optlog)
                          /\ n >= 0)
        /\ (pc = "exit" /\ msg \in {ZeroLength, TooMuch})
               => NetShift(optlog) > EncodedValue(orig)

C8_Witness ==
    /\ pc = "put"
    /\ \E i, j \in 1..Len(optlog) :
           i < j /\ optlog[i].opt = "D" /\ optlog[j].opt = "c"

\* C10: in a run that ends successfully, the bytes put zero-fills, exports and
\* writes fit the block get allocated.
C10_BufferBound ==
    (pc = "exit" /\ status = "ok") => filesize <= Capacity

\* C3: when the run with shift k has succeeded and the run with shift -k has
\* ended, that second run has succeeded and the file holds its first bytes.
C3_CompressDecompressInverse ==
    (mode = "inverse" /\ step = 2) => (status = "ok" /\ file = first)

\* C9: each compress -c run on a file whose number is above 0 succeeds, lowers
\* the number by 1 and does not lengthen the file; the file becomes empty
\* after as many runs as the number it stood for; compress -C V empties it
\* in one run.
C9_RepeatedCompression ==
    /\ [][(mode = "repeat" /\ EncodedValue(file) > 0)
             => (/\ status' = "ok"
                 /\ EncodedValue(file') = EncodedValue(file) - 1
                 /\ Len(file') <= Len(file))]_vars
    /\ [](mode = "repeat" => (file = <<>> <=> step >= EncodedValue(first)))
    /\ [](mode = "bulk" /\ step = 1 => status = "ok" /\ file = <<>>)
    /\ (mode = "repeat" => <>(file = <<>> /\ step = EncodedValue(first)))

C9_Witness ==
    /\ mode = "repeat" /\ first = <<0, 0>> /\ file = <<>> /\ step = 257
    /\ status = "ok"

====
